---- MODULE Spec2Model ----
(***************************************************************************)
(* Model of radlinskii/interpreter: the tree-walking evaluator             *)
(* (evaluator/evaluator.go) and the lexer (lexer/lexer.go).                *)
(*                                                                         *)
(* Runtime objects are records that carry the address of the Go pointer    *)
(* (addr), because the evaluator compares objects by pointer identity.     *)
(* Eval is a recursive operator that threads the heap: every result is a   *)
(* record [val, env, nxt] with the object returned, the store of the       *)
(* *object.Environment after the call and the next free address.  A Go     *)
(* runtime panic is the pseudo-object of type "PANIC"; it unwinds every    *)
(* frame.  Integer values are int64 in the source; the literals of the     *)
(* model keep every result far inside that range, where Go's arithmetic is *)
(* exact.                                                                  *)
(***************************************************************************)
EXTENDS Integers, Sequences, FiniteSets, TLC

VARIABLES program, env, nxt, idx, result, pc,
          input, position, nextPosition, ch, RowNum, tok

evalVars == <<program, env, nxt, idx, result, pc>>
lexVars == <<input, position, nextPosition, ch, RowNum, tok>>
vars == <<program, env, nxt, idx, result, pc,
          input, position, nextPosition, ch, RowNum, tok>>

----------------------------------------------------------------------------
(* Bounds of the model *)

MaxInt == 1
MaxBlockLen == 2
MaxProgLen == 2
MaxInputLen == 5
MaxCallsAtEnd == 2

----------------------------------------------------------------------------
(* object types (package object) *)

INTEGER_OBJ == "INTEGER"
BOOLEAN_OBJ == "BOOLEAN"
NULL_OBJ == "NULL"
RETURN_OBJ == "RETURN"
ERROR_OBJ == "ERROR"

\* the nil interface value
Nil == [type |-> "nil", addr |-> 0]

IsNil(obj) == obj.addr = 0 /\ obj.type = "nil"

\* a Go runtime panic unwinding the evaluation (not an object)
Panic(msg) == [type |-> "PANIC", addr |-> 0, Message |-> msg]

IsPanic(obj) == obj.type = "PANIC"

TrueObj == [type |-> BOOLEAN_OBJ, addr |-> 1, BValue |-> TRUE]
FalseObj == [type |-> BOOLEAN_OBJ, addr |-> 2, BValue |-> FALSE]
NULL == [type |-> NULL_OBJ, addr |-> 3]

\* first address handed out to an object allocated during evaluation
FirstAddr == 4

\* a result of an evaluation step: object, environment store, next address
Res(v, s) == [val |-> v, env |-> s.env, nxt |-> s.nxt]

\* &object.Integer{Value: v}
NewInteger(v, s) ==
    [val |-> [type |-> INTEGER_OBJ, addr |-> s.nxt, Value |-> v],
     env |-> s.env, nxt |-> s.nxt + 1]

\* &object.Return{Value: v}
NewReturn(v, s) ==
    [val |-> [type |-> RETURN_OBJ, addr |-> s.nxt, RValue |-> v],
     env |-> s.env, nxt |-> s.nxt + 1]

newError(msg, s) ==
    [val |-> [type |-> ERROR_OBJ, addr |-> s.nxt, Message |-> msg],
     env |-> s.env, nxt |-> s.nxt + 1]

isError(obj) ==
    IF ~IsNil(obj) THEN obj.type = ERROR_OBJ ELSE FALSE

----------------------------------------------------------------------------
(* object.Environment: one store; the evaluator never creates an enclosed  *)
(* environment, so the outer chain is always empty.                        *)

NewEnvironment == <<>>

EnvHas(e, name) == name \in DOMAIN e

EnvGet(e, name) == e[name]

EnvSet(e, name, val) ==
    [n \in (DOMAIN e) \cup {name} |-> IF n = name THEN val ELSE e[n]]

----------------------------------------------------------------------------
(* ast: node constructors *)

NilNode == [kind |-> "nil"]
IntegerLiteral(v) == [kind |-> "IntegerLiteral", Value |-> v]
BooleanLiteral(b) == [kind |-> "BooleanLiteral", BValue |-> b]
Identifier(n) == [kind |-> "Identifier", Name |-> n]
\* a node type that Eval has no case for
StringLiteral == [kind |-> "StringLiteral"]
PrefixExpression(op, r) ==
    [kind |-> "PrefixExpression", Operator |-> op, Right |-> r]
InfixExpression(l, op, r) ==
    [kind |-> "InfixExpression", Left |-> l, Operator |-> op, Right |-> r]
IfExpression(c, cons, alt) ==
    [kind |-> "IfExpression", Condition |-> c, Consequence |-> cons,
     Alternative |-> alt]
BlockStatement(stmts) == [kind |-> "BlockStatement", Statements |-> stmts]
ExpressionStatement(e) == [kind |-> "ExpressionStatement", Expression |-> e]
ReturnStatement(e) == [kind |-> "ReturnStatement", ReturnValue |-> e]
VarStatement(n, e) == [kind |-> "VarStatement", Name |-> n, Value |-> e]

----------------------------------------------------------------------------
(* evaluator.go *)

\* mutant: a new Boolean is built instead of handing out TRUE and FALSE
evalBoolToBooleanObjectReference_NewObject(b) ==
    [type |-> BOOLEAN_OBJ, addr |-> -1, BValue |-> b]

evalBoolToBooleanObjectReference(b) ==
    IF b THEN TrueObj ELSE FalseObj

\* mutant: the case NULL is missing
evalBangOperatorExpression_NoNullCase(right) ==
    CASE right.addr = TrueObj.addr -> FalseObj
      [] right.addr = FalseObj.addr -> TrueObj
      [] OTHER -> FalseObj

evalBangOperatorExpression(right) ==
    CASE right.addr = TrueObj.addr -> FalseObj
      [] right.addr = FalseObj.addr -> TrueObj
      [] right.addr = NULL.addr -> TrueObj
      [] OTHER -> FalseObj

evalMinusPrefixOperatorExpression(right, s) ==
    IF IsNil(right) THEN Res(Panic("nil pointer dereference"), s)
    ELSE IF right.type # INTEGER_OBJ
         THEN newError("unknown operator: -" \o right.type, s)
         ELSE NewInteger(0 - right.Value, s)

evalPrefixExpression(operator, right, s) ==
    CASE operator = "!" -> Res(evalBangOperatorExpression(right), s)
      [] operator = "-" -> evalMinusPrefixOperatorExpression(right, s)
      [] OTHER -> IF IsNil(right)
                  THEN Res(Panic("nil pointer dereference"), s)
                  ELSE newError("unknown operator: " \o operator \o right.type, s)

\* Go's integer division truncates toward zero
GoDiv(a, b) ==
    LET absA == IF a < 0 THEN 0 - a ELSE a
        absB == IF b < 0 THEN 0 - b ELSE b
        q == absA \div absB
    IN IF (a < 0) = (b < 0) THEN q ELSE 0 - q

evalIntegerInfixExpression(operator, left, right, s) ==
    LET leftVal == left.Value
        rightVal == right.Value
    IN CASE operator = "+" -> NewInteger(leftVal + rightVal, s)
         [] operator = "-" -> NewInteger(leftVal - rightVal, s)
         [] operator = "*" -> NewInteger(leftVal * rightVal, s)
         [] operator = "/" ->
              IF rightVal = 0
              THEN Res(Panic("runtime error: integer divide by zero"), s)
              ELSE NewInteger(GoDiv(leftVal, rightVal), s)
         [] operator = "<" -> Res(evalBoolToBooleanObjectReference(leftVal < rightVal), s)
         [] operator = ">" -> Res(evalBoolToBooleanObjectReference(leftVal > rightVal), s)
         [] operator = "==" -> Res(evalBoolToBooleanObjectReference(leftVal = rightVal), s)
         [] operator = "!=" -> Res(evalBoolToBooleanObjectReference(leftVal # rightVal), s)
         [] operator = "<=" -> Res(evalBoolToBooleanObjectReference(leftVal <= rightVal), s)
         [] operator = ">=" -> Res(evalBoolToBooleanObjectReference(leftVal >= rightVal), s)
         [] OTHER -> newError("unknown operator: " \o left.type \o " " \o operator
                                  \o " " \o right.type, s)

\* mutant: == and != are dispatched before the type check
evalInfixExpression_EqualityFirst(operator, left, right, s) ==
    IF IsNil(left) \/ IsNil(right)
    THEN Res(Panic("nil pointer dereference"), s)
    ELSE CASE left.type = INTEGER_OBJ /\ right.type = INTEGER_OBJ ->
                evalIntegerInfixExpression(operator, left, right, s)
           [] ~(left.type = INTEGER_OBJ /\ right.type = INTEGER_OBJ)
              /\ operator = "==" ->
                Res(evalBoolToBooleanObjectReference(left.addr = right.addr), s)
           [] ~(left.type = INTEGER_OBJ /\ right.type = INTEGER_OBJ)
              /\ operator = "!=" ->
                Res(evalBoolToBooleanObjectReference(left.addr # right.addr), s)
           [] OTHER ->
                IF left.type # right.type
                THEN newError("type mismatch: " \o left.type \o " " \o operator
                                  \o " " \o right.type, s)
                ELSE newError("unknown operator: " \o left.type \o " "
                                  \o operator \o " " \o right.type, s)

evalInfixExpression(operator, left, right, s) ==
    IF IsNil(left) \/ IsNil(right)
    THEN Res(Panic("nil pointer dereference"), s)
    ELSE CASE left.type # right.type ->
                newError("type mismatch: " \o left.type \o " " \o operator
                             \o " " \o right.type, s)
           [] left.type = right.type /\ left.type = INTEGER_OBJ ->
                evalIntegerInfixExpression(operator, left, right, s)
           [] left.type = right.type /\ left.type # INTEGER_OBJ /\ operator = "==" ->
                Res(evalBoolToBooleanObjectReference(left.addr = right.addr), s)
           [] left.type = right.type /\ left.type # INTEGER_OBJ /\ operator = "!=" ->
                Res(evalBoolToBooleanObjectReference(left.addr # right.addr), s)
           [] OTHER ->
                newError("unknown operator: " \o left.type \o " " \o operator
                             \o " " \o right.type, s)

\* mutant: the case NULL is missing
isTruthy_NoNullCase(obj) ==
    CASE obj.addr = FalseObj.addr -> FALSE
      [] obj.addr = TrueObj.addr -> TRUE
      [] OTHER -> TRUE

isTruthy(obj) ==
    CASE obj.addr = NULL.addr -> FALSE
      [] obj.addr = FalseObj.addr -> FALSE
      [] obj.addr = TrueObj.addr -> TRUE
      [] OTHER -> TRUE

evalIdentifier(node, s) ==
    IF ~EnvHas(s.env, node.Name)
    THEN newError("unknown identifier: " \o node.Name, s)
    ELSE Res(EnvGet(s.env, node.Name), s)

RECURSIVE Eval(_, _)
RECURSIVE BlockLoop(_, _, _)

\* mutant: the loop stops at a Return only
BlockLoop_NoStopAtError(stmts, i, r) ==
    IF i > Len(stmts) THEN r
    ELSE LET q == Eval(stmts[i], r)
         IN IF IsPanic(q.val) THEN q
            ELSE IF ~IsNil(q.val) /\ q.val.type = RETURN_OBJ
                 THEN q
                 ELSE BlockLoop(stmts, i + 1, q)

\* the loop of evalBlockStatement, from statement i on; r is the result so far
BlockLoop(stmts, i, r) ==
    IF i > Len(stmts) THEN r
    ELSE LET q == Eval(stmts[i], r)
         IN IF IsPanic(q.val) THEN q
            ELSE IF ~IsNil(q.val)
                    /\ (q.val.type = RETURN_OBJ \/ q.val.type = ERROR_OBJ)
                 THEN q
                 ELSE BlockLoop(stmts, i + 1, q)

evalBlockStatement(block, s) == BlockLoop(block.Statements, 1, Res(Nil, s))

evalIfExpression(ie, s) ==
    LET condition == Eval(ie.Condition, s)
    IN IF IsPanic(condition.val) THEN condition
       ELSE IF isError(condition.val) THEN condition
       ELSE IF isTruthy(condition.val) THEN Eval(ie.Consequence, condition)
       ELSE IF ie.Alternative # NilNode THEN Eval(ie.Alternative, condition)
       ELSE Res(NULL, condition)

\* Eval, case *ast.ReturnStatement
CaseReturnStatement(node, s) ==
    LET v == Eval(node.ReturnValue, s)
    IN IF IsPanic(v.val) THEN v
       ELSE IF isError(v.val) THEN v
       ELSE NewReturn(v.val, v)

\* mutant: the value is bound without the isError check
CaseVarStatement_NoErrorCheck(node, s) ==
    LET v == Eval(node.Value, s)
    IN IF IsPanic(v.val) THEN v
       ELSE [val |-> v.val, env |-> EnvSet(v.env, node.Name, v.val),
             nxt |-> v.nxt]

\* Eval, case *ast.VarStatement
CaseVarStatement(node, s) ==
    LET v == Eval(node.Value, s)
    IN IF IsPanic(v.val) THEN v
       ELSE IF isError(v.val) THEN v
       ELSE [val |-> v.val, env |-> EnvSet(v.env, node.Name, v.val),
             nxt |-> v.nxt]

\* Eval, case *ast.PrefixExpression
CasePrefixExpression(node, s) ==
    LET right == Eval(node.Right, s)
    IN IF IsPanic(right.val) THEN right
       ELSE IF isError(right.val) THEN right
       ELSE evalPrefixExpression(node.Operator, right.val, right)

\* Eval, case *ast.InfixExpression
CaseInfixExpression(node, s) ==
    LET left == Eval(node.Left, s)
    IN IF IsPanic(left.val) THEN left
       ELSE IF isError(left.val) THEN left
       ELSE LET right == Eval(node.Right, left)
            IN IF IsPanic(right.val) THEN right
               ELSE IF isError(right.val) THEN right
               ELSE evalInfixExpression(node.Operator, left.val, right.val,
                                        right)

Eval(node, s) ==
    CASE node.kind = "ExpressionStatement" -> Eval(node.Expression, s)
      [] node.kind = "BlockStatement" -> evalBlockStatement(node, s)
      [] node.kind = "ReturnStatement" -> CaseReturnStatement(node, s)
      [] node.kind = "VarStatement" -> CaseVarStatement(node, s)
      [] node.kind = "IntegerLiteral" -> NewInteger(node.Value, s)
      [] node.kind = "BooleanLiteral" ->
           Res(evalBoolToBooleanObjectReference(node.BValue), s)
      [] node.kind = "PrefixExpression" -> CasePrefixExpression(node, s)
      [] node.kind = "InfixExpression" -> CaseInfixExpression(node, s)
      [] node.kind = "IfExpression" -> evalIfExpression(node, s)
      [] node.kind = "Identifier" -> evalIdentifier(node, s)
      [] OTHER -> Res(Nil, s)

----------------------------------------------------------------------------
(* The programs the evaluator is run on *)

SeqsUpTo(S, n) == UNION {[1..k -> S] : k \in 0..n}

PrefixOps == {"!", "-"}
InfixOps == {"+", "-", "*", "/", "<", ">", "<=", ">=", "==", "!="}

Atoms ==
    {IntegerLiteral(v) : v \in 0..MaxInt}
    \cup {BooleanLiteral(b) : b \in {TRUE, FALSE}}
    \cup {Identifier("x"), Identifier("z"), StringLiteral}

DivByZero == InfixExpression(IntegerLiteral(1), "/", IntegerLiteral(0))

\* statements of the blocks of if expressions
BlockStmts ==
    {VarStatement("y", IntegerLiteral(MaxInt)),
     ReturnStatement(IntegerLiteral(1)),
     ExpressionStatement(Identifier("z")),
     ExpressionStatement(BooleanLiteral(FALSE)),
     ExpressionStatement(StringLiteral),
     ExpressionStatement(DivByZero)}

Blocks == {BlockStatement(b) : b \in SeqsUpTo(BlockStmts, MaxBlockLen)}

AltBlocks ==
    {NilNode, BlockStatement(<<>>),
     BlockStatement(<<VarStatement("x", IntegerLiteral(0))>>),
     BlockStatement(<<ReturnStatement(BooleanLiteral(TRUE))>>)}

\* if (false) {}  evaluates to NULL
NullExpr == IfExpression(BooleanLiteral(FALSE), BlockStatement(<<>>), NilNode)
\* if (true) { return false; }  evaluates to a Return object
ReturnExpr ==
    IfExpression(BooleanLiteral(TRUE),
                 BlockStatement(<<ReturnStatement(BooleanLiteral(FALSE))>>),
                 NilNode)
\* if (true) { var y = 1; }  binds y and evaluates to an Integer
BindExpr ==
    IfExpression(BooleanLiteral(TRUE),
                 BlockStatement(<<VarStatement("y", IntegerLiteral(1))>>),
                 NilNode)

Conds == Atoms \cup {NullExpr, ReturnExpr, DivByZero}

IfExprs == {IfExpression(c, b, a) : c \in Conds, b \in Blocks, a \in AltBlocks}

SmallIfs ==
    {IfExpression(c, BlockStatement(<<s>>), NilNode) :
        c \in {BooleanLiteral(TRUE), BooleanLiteral(FALSE), IntegerLiteral(0)},
        s \in BlockStmts}

\* an if expression as a statement of a block, followed by another statement
NestedIfs ==
    {IfExpression(BooleanLiteral(TRUE),
                  BlockStatement(<<ExpressionStatement(i), s>>), NilNode) :
        i \in SmallIfs, s \in BlockStmts}

Operands ==
    Atoms \cup {PrefixExpression("-", IntegerLiteral(1)),
                NullExpr, ReturnExpr, BindExpr}

Infixes == {InfixExpression(l, op, r) : l \in Operands, op \in InfixOps, r \in Operands}

Prefixes == {PrefixExpression(op, r) : op \in PrefixOps, r \in Operands \cup {DivByZero}}

\* Boolean operands of every origin: literal, prefix !, comparison, != of Nulls
BoolOperands ==
    {BooleanLiteral(TRUE),
     PrefixExpression("!", BooleanLiteral(TRUE)),
     InfixExpression(IntegerLiteral(0), "<", IntegerLiteral(1)),
     InfixExpression(NullExpr, "!=", NullExpr)}

BoolEqualities ==
    {InfixExpression(l, op, r) :
        l \in BoolOperands, op \in {"==", "!="}, r \in BoolOperands}

Exprs ==
    Atoms \cup Prefixes \cup Infixes \cup BoolEqualities \cup IfExprs
    \cup NestedIfs

ValueExprs ==
    Atoms \cup Prefixes \cup {DivByZero, NilNode}
    \cup {i \in IfExprs : i.Condition \in
              {BooleanLiteral(TRUE), BooleanLiteral(FALSE), Identifier("z")}}

MainStmts ==
    {ExpressionStatement(e) : e \in Exprs}
    \cup {VarStatement("x", e) : e \in ValueExprs \ {NilNode}}
    \cup {ReturnStatement(e) : e \in ValueExprs}

\* the statements written before and after the main statement of a program
SideStmts ==
    {VarStatement("x", IntegerLiteral(0)),
     ExpressionStatement(Identifier("y")),
     ReturnStatement(IntegerLiteral(0))}

Programs ==
    {<<>>} \cup
    {before \o <<m>> \o after :
        m \in MainStmts,
        before \in SeqsUpTo(SideStmts, MaxProgLen - 1),
        after \in SeqsUpTo(SideStmts, MaxProgLen - 1)}

----------------------------------------------------------------------------
(* Eval on a Program node: evalProgram, one action per turn of its loop *)

NoToken == [Type |-> "", Literal |-> <<>>, LineNumber |-> 0]

Init ==
    /\ program \in Programs
    /\ Len(program) <= MaxProgLen
    /\ env = NewEnvironment
    /\ nxt = FirstAddr
    /\ idx = 1
    /\ result = Nil
    /\ pc = "evalProgram"
    /\ input = <<>>
    /\ position = 0
    /\ nextPosition = 0
    /\ ch = ""
    /\ RowNum = 0
    /\ tok = NoToken

\* one turn of the loop of evalProgram
EvalStatement ==
    /\ pc = "evalProgram"
    /\ idx <= Len(program)
    /\ LET r == Eval(program[idx], [env |-> env, nxt |-> nxt])
       IN /\ env' = r.env
          /\ nxt' = r.nxt
          /\ IF IsPanic(r.val)
             THEN result' = r.val /\ pc' = "panic" /\ idx' = idx
             ELSE IF r.val.type = RETURN_OBJ
             THEN result' = r.val.RValue /\ pc' = "done" /\ idx' = idx
             ELSE IF r.val.type = ERROR_OBJ
             THEN result' = r.val /\ pc' = "done" /\ idx' = idx
             ELSE result' = r.val /\ pc' = pc /\ idx' = idx + 1
    /\ UNCHANGED <<program, lexVars>>

\* the loop of evalProgram is over: return result
ProgramEnd ==
    /\ pc = "evalProgram"
    /\ idx > Len(program)
    /\ pc' = "done"
    /\ UNCHANGED <<program, env, nxt, idx, result, lexVars>>

Next == EvalStatement \/ ProgramEnd

Spec == Init /\ [][Next]_vars

----------------------------------------------------------------------------
(* lexer.go.  The input is a sequence of one-character strings; position  *)
(* and nextPosition are Go's 0-based indices; NUL is the byte 0.           *)

NUL == "NUL"

Letters ==
    {"a", "b", "c", "d", "e", "f", "g", "h", "i", "j", "k", "l", "m", "n",
     "o", "p", "q", "r", "s", "t", "u", "v", "w", "x", "y", "z",
     "A", "B", "C", "D", "E", "F", "G", "H", "I", "J", "K", "L", "M", "N",
     "O", "P", "Q", "R", "S", "T", "U", "V", "W", "X", "Y", "Z", "_"}

Digits == {"0", "1", "2", "3", "4", "5", "6", "7", "8", "9"}

isLetter(c) == c \in Letters

isDigit(c) == c \in Digits

\* token.LookUpIdent: the keywords the lexer tests name
LookUpIdent(literal) ==
    CASE literal = <<"c", "o", "n", "s", "t">> -> "CONST"
      [] literal = <<"f", "u", "n">> -> "FUNCTION"
      [] literal = <<"r", "e", "t", "u", "r", "n">> -> "RETURN"
      [] literal = <<"i", "f">> -> "IF"
      [] literal = <<"e", "l", "s", "e">> -> "ELSE"
      [] literal = <<"t", "r", "u", "e">> -> "BOOLEAN"
      [] literal = <<"f", "a", "l", "s", "e">> -> "BOOLEAN"
      [] OTHER -> "IDENT"

Token(type, literal, line) ==
    [Type |-> type, Literal |-> literal, LineNumber |-> line]

newToken(tokenType, c, lineNum) == Token(tokenType, <<c>>, lineNum)

\* the Lexer struct
Lexer(in, pos, npos, c, row) ==
    [input |-> in, position |-> pos, nextPosition |-> npos, ch |-> c,
     RowNum |-> row]

readChar(l) ==
    [l EXCEPT !.ch = IF l.nextPosition >= Len(l.input) THEN NUL
                     ELSE l.input[l.nextPosition + 1],
              !.position = l.nextPosition,
              !.nextPosition = l.nextPosition + 1]

peekChar(l) ==
    IF l.nextPosition >= Len(l.input) THEN NUL
    ELSE l.input[l.nextPosition + 1]

New(in) == readChar(Lexer(in, 0, 0, NUL, 1))

\* RowNum++ when the current character ends a line
CountLine(l) ==
    IF l.ch = "\n" \/ l.ch = "\r" THEN [l EXCEPT !.RowNum = @ + 1] ELSE l

RECURSIVE skipWhitespace(_)
skipWhitespace(l) ==
    IF l.ch = " " \/ l.ch = "\t" \/ l.ch = "\n" \/ l.ch = "\r"
    THEN skipWhitespace(readChar(CountLine(l)))
    ELSE l

RECURSIVE skipOneLineComment(_)
skipOneLineComment(l) ==
    IF l.ch # "\n" /\ l.ch # "\r" /\ l.ch # NUL
    THEN skipOneLineComment(readChar(l))
    ELSE l

RECURSIVE readIdentLoop(_)
readIdentLoop(l) == IF isLetter(l.ch) THEN readIdentLoop(readChar(l)) ELSE l

\* mutant: the identifier is read but the lexer is left where it was
readIdent_NoAdvance(l) ==
    LET m == readIdentLoop(l)
    IN [lit |-> SubSeq(l.input, l.position + 1, m.position), lex |-> l]

\* readIdent: the literal read and the lexer after it
readIdent(l) ==
    LET m == readIdentLoop(l)
    IN [lit |-> SubSeq(l.input, l.position + 1, m.position), lex |-> m]

RECURSIVE readNumberLoop(_)
readNumberLoop(l) == IF isDigit(l.ch) THEN readNumberLoop(readChar(l)) ELSE l

readNumber(l) ==
    LET m == readNumberLoop(l)
    IN [lit |-> SubSeq(l.input, l.position + 1, m.position), lex |-> m]

\* the loop of readString; position is the index after the opening quote
RECURSIVE readStringLoop(_, _)
readStringLoop(l, pos) ==
    LET m == readChar(l)
    IN IF m.ch = "\"" 
       THEN LET n == readChar(m)
            IN [tok |-> Token("STRING", SubSeq(n.input, pos + 1, n.position - 1),
                              n.RowNum),
                lex |-> n]
       ELSE IF m.ch = NUL
       THEN [tok |-> Token("ILLEGAL",
                           <<"FATAL ERROR: string literal not terminated at line: ",
                             ToString(m.RowNum), "\n\n">>,
                           m.RowNum),
             lex |-> m]
       ELSE readStringLoop(m, pos)

readString(l) == readStringLoop(l, l.position + 1)

\* the tokens of one character that need no look-ahead
SingleCharTokens ==
    [c \in {"+", "-", "*", ",", ";", "(", ")", "{", "}", "[", "]", ":"} |->
        CASE c = "+" -> "PLUS"
          [] c = "-" -> "MINUS"
          [] c = "*" -> "ASTERISK"
          [] c = "," -> "COMMA"
          [] c = ";" -> "SEMICOLON"
          [] c = "(" -> "LPAREN"
          [] c = ")" -> "RPAREN"
          [] c = "{" -> "LBRACE"
          [] c = "}" -> "RBRACE"
          [] c = "[" -> "LBRACKET"
          [] c = "]" -> "RBRACKET"
          [] c = ":" -> "COLON"]

\* the tokens of one character that become another token when '=' follows
WithEqualTokens ==
    [c \in {"=", "!", "<", ">"} |->
        CASE c = "=" -> <<"ASSIGN", "EQ">>
          [] c = "!" -> <<"BANG", "NEQ">>
          [] c = "<" -> <<"LT", "LTE">>
          [] c = ">" -> <<"GT", "GTE">>]

RECURSIVE NextToken(_)
RECURSIVE CommentLoop(_)

\* the loop of skipMultipleLineComment, after the opening sequence
CommentLoop(l) ==
    IF l.ch # NUL
    THEN IF l.ch = "*" /\ peekChar(l) = "/"
         THEN NextToken(readChar(readChar(l)))
         ELSE CommentLoop(readChar(CountLine(l)))
    ELSE [tok |-> Token("ILLEGAL",
                        <<"FATAL ERROR: comment not terminated at line: ",
                          ToString(l.RowNum), "\n\n">>,
                        l.RowNum),
          lex |-> l]

\* mutant: one character of the opening sequence is skipped, not two
skipMultipleLineComment_OneRead(l) == CommentLoop(readChar(l))

skipMultipleLineComment(l) == CommentLoop(readChar(readChar(l)))

\* NextToken: the token returned and the lexer after the call
NextToken(l0) ==
    LET l == skipWhitespace(l0)
    IN CASE l.ch \in DOMAIN WithEqualTokens ->
              IF peekChar(l) = "="
              THEN LET m == readChar(l)
                   IN [tok |-> Token(WithEqualTokens[l.ch][2], <<l.ch, "=">>,
                                     m.RowNum),
                       lex |-> readChar(m)]
              ELSE [tok |-> newToken(WithEqualTokens[l.ch][1], l.ch, l.RowNum),
                    lex |-> readChar(l)]
         [] l.ch \in DOMAIN SingleCharTokens ->
              [tok |-> newToken(SingleCharTokens[l.ch], l.ch, l.RowNum),
               lex |-> readChar(l)]
         [] l.ch = "/" ->
              IF peekChar(l) = "/"
              THEN NextToken(skipOneLineComment(l))
              ELSE IF peekChar(l) = "*"
              THEN skipMultipleLineComment(l)
              ELSE [tok |-> newToken("SLASH", l.ch, l.RowNum),
                    lex |-> readChar(l)]
         [] l.ch = "\"" -> readString(l)
         [] l.ch = NUL ->
              [tok |-> Token("EOF", <<>>, l.RowNum), lex |-> readChar(l)]
         [] OTHER ->
              IF isLetter(l.ch)
              THEN LET r == readIdent(l)
                   IN [tok |-> Token(LookUpIdent(r.lit), r.lit, r.lex.RowNum),
                       lex |-> r.lex]
              ELSE IF isDigit(l.ch)
              THEN LET r == readNumber(l)
                   IN [tok |-> Token("INT", r.lit, r.lex.RowNum), lex |-> r.lex]
              ELSE [tok |-> Token("ILLEGAL",
                                  <<"FATAL ERROR: illegal character: ", l.ch,
                                    " at line: ", ToString(l.RowNum), "\n\n">>,
                                  l.RowNum),
                    lex |-> readChar(l)]

----------------------------------------------------------------------------
(* The lexer run on an input: New, then calls of NextToken *)

Alphabet == {"/", "*", "a", "\n", "\""}

Texts == UNION {[1..k -> Alphabet] : k \in 0..MaxInputLen}

\* every text, as it is and after the opening of a block comment
Inputs == Texts \cup {<<"/", "*">> \o t : t \in Texts}

\* the Lexer struct held in the variables
TheLexer == Lexer(input, position, nextPosition, ch, RowNum)

LexInit ==
    /\ input \in Inputs
    /\ position = New(input).position
    /\ nextPosition = New(input).nextPosition
    /\ ch = New(input).ch
    /\ RowNum = New(input).RowNum
    /\ tok = NoToken
    /\ program = <<>>
    /\ env = NewEnvironment
    /\ nxt = FirstAddr
    /\ idx = 1
    /\ result = Nil
    /\ pc = "lexer"

\* one call of l.NextToken()
CallNextToken ==
    /\ pc = "lexer"
    /\ nextPosition <= Len(input) + MaxCallsAtEnd
    /\ LET r == NextToken(TheLexer)
       IN /\ tok' = r.tok
          /\ position' = r.lex.position
          /\ nextPosition' = r.lex.nextPosition
          /\ ch' = r.lex.ch
          /\ RowNum' = r.lex.RowNum
    /\ UNCHANGED <<input, evalVars>>

LexNext == CallNextToken

LexSpec == LexInit /\ [][LexNext]_vars

\* a Go string is any sequence of bytes, the byte 0 among them
ByteAlphabet == Alphabet \cup {NUL}

Strings == UNION {[1..k -> ByteAlphabet] : k \in 0..MaxInputLen}

\* New(input) for any string
LexInitAnyString ==
    /\ input \in Strings
    /\ position = New(input).position
    /\ nextPosition = New(input).nextPosition
    /\ ch = New(input).ch
    /\ RowNum = New(input).RowNum
    /\ tok = NoToken
    /\ program = <<>>
    /\ env = NewEnvironment
    /\ nxt = FirstAddr
    /\ idx = 1
    /\ result = Nil
    /\ pc = "lexer"

LexSpecAnyString == LexInitAnyString /\ [][LexNext]_vars

----------------------------------------------------------------------------
(* Properties of the evaluator *)

Running == pc = "evalProgram" /\ idx <= Len(program)
Cur == program[idx]
Heap == [env |-> env, nxt |-> nxt]

IsSignal(v) == v.type \in {RETURN_OBJ, ERROR_OBJ}

IsTrue(v) == v.type = BOOLEAN_OBJ /\ v.BValue
IsFalse(v) == v.type = BOOLEAN_OBJ /\ ~v.BValue
IsNull(v) == v.type = NULL_OBJ

\* what evalProgram makes of the outcome r of its current statement
Delivered(r) ==
    /\ env' = r.env
    /\ nxt' = r.nxt
    /\ IF IsPanic(r.val) THEN pc' = "panic"
       ELSE IF r.val.type = RETURN_OBJ
       THEN pc' = "done" /\ idx' = idx /\ result' = r.val.RValue
       ELSE IF r.val.type = ERROR_OBJ
       THEN pc' = "done" /\ idx' = idx /\ result' = r.val
       ELSE pc' = "evalProgram" /\ idx' = idx + 1 /\ result' = r.val

\* the outcome of the first k statements of stmts, evaluated one after another
RECURSIVE StateAfter(_, _, _)
StateAfter(stmts, k, s) ==
    IF k = 0 THEN Res(Nil, s)
    ELSE Eval(stmts[k], StateAfter(stmts, k - 1, s))

Stops(r) == IsPanic(r.val) \/ IsSignal(r.val)

\* the positions of the first statement that yields a Return or an Error
FirstStop(stmts, s) ==
    {k \in 1..Len(stmts) :
        /\ Stops(StateAfter(stmts, k, s))
        /\ \A j \in 1..(k - 1) : ~Stops(StateAfter(stmts, j, s))}

\* statements in written order up to the first signal, or all of them
InOrder(stmts, s) ==
    IF FirstStop(stmts, s) = {}
    THEN StateAfter(stmts, Len(stmts), s)
    ELSE StateAfter(stmts, CHOOSE k \in FirstStop(stmts, s) : TRUE, s)

\* the outcome of a statement; the blocks of an if expression that is the
\* statement's expression are evaluated in written order up to the first signal
InOrderOutcome(stmt, s) ==
    IF stmt.kind = "ExpressionStatement" /\ stmt.Expression.kind = "IfExpression"
    THEN LET ie == stmt.Expression
             c == Eval(ie.Condition, s)
         IN IF IsPanic(c.val) \/ isError(c.val) THEN c
            ELSE IF ~(IsFalse(c.val) \/ IsNull(c.val))
            THEN InOrder(ie.Consequence.Statements, c)
            ELSE IF ie.Alternative # NilNode
            THEN InOrder(ie.Alternative.Statements, c)
            ELSE Res(NULL, c)
    ELSE Eval(stmt, s)

\* one turn of the program loop, as claim C1 has it; unwrap says whether a
\* Return signal reaches the caller of the program as its wrapped value
ShortCircuit(unwrap) ==
    /\ Running =>
         LET r == InOrderOutcome(Cur, Heap)
         IN /\ env' = r.env
            /\ IF IsPanic(r.val) THEN pc' = "panic"
               ELSE IF IsSignal(r.val)
               THEN /\ pc' = "done"
                    /\ idx' = idx
                    /\ result' = IF unwrap /\ r.val.type = RETURN_OBJ
                                 THEN r.val.RValue ELSE r.val
               ELSE pc' = "evalProgram" /\ idx' = idx + 1 /\ result' = r.val
    /\ (pc = "evalProgram" /\ idx > Len(program)) =>
         (pc' = "done" /\ result' = result /\ env' = env)
    /\ pc # "evalProgram" => UNCHANGED <<env, result, idx, pc>>

\* C1 (as stated): a Program and a BlockStatement evaluate their statements in
\* written order; the first statement that yields a Return or an Error ends
\* the evaluation, no later statement is evaluated, and that signal itself is
\* what the caller gets; without a signal the result is the last statement's.
C1_SignalYieldedAsIs == [][ShortCircuit(FALSE)]_vars

\* C1 (amended): as above, except that a Program hands its caller the value
\* wrapped in a Return signal instead of the Return object.
C1_ShortCircuit == [][ShortCircuit(TRUE)]_vars

\* a Return out of a nested block ended the block and the program: neither the
\* later statement of the block nor the later statement of the program ran
C1_Witness ==
    /\ pc = "done"
    /\ idx < Len(program)
    /\ program[idx] =
         ExpressionStatement(
           IfExpression(BooleanLiteral(TRUE),
                        BlockStatement(<<ReturnStatement(IntegerLiteral(1)),
                                         VarStatement("y", IntegerLiteral(MaxInt))>>),
                        NilNode))
    /\ program[idx + 1] = VarStatement("x", IntegerLiteral(0))
    /\ DOMAIN env = {}
    /\ result.type = INTEGER_OBJ
    /\ result.Value = 1

\* C2: Eval returns an object, never nil, for every node and environment.
C2_EvalTotal ==
    (pc = "done" \/ idx > 1) => ~IsNil(result)

\* C3: an infix expression over two Integer operands yields an Integer for
\* + - * / and the Boolean of the numeric comparison for < > <= >= == !=, and
\* never ends in a panic.
C3_IntegerInfix ==
    [][(Running /\ Cur.kind = "ExpressionStatement"
          /\ Cur.Expression.kind = "InfixExpression") =>
         LET e == Cur.Expression
             L == Eval(e.Left, Heap)
             R == Eval(e.Right, L)
             a == L.val.Value
             b == R.val.Value
         IN (L.val.type = INTEGER_OBJ /\ R.val.type = INTEGER_OBJ) =>
              /\ pc' # "panic"
              /\ e.Operator \in {"+", "-", "*", "/"} => result'.type = INTEGER_OBJ
              /\ e.Operator = "<" => result' = (IF a < b THEN TrueObj ELSE FalseObj)
              /\ e.Operator = ">" => result' = (IF a > b THEN TrueObj ELSE FalseObj)
              /\ e.Operator = "<=" => result' = (IF a <= b THEN TrueObj ELSE FalseObj)
              /\ e.Operator = ">=" => result' = (IF a >= b THEN TrueObj ELSE FalseObj)
              /\ e.Operator = "==" => result' = (IF a = b THEN TrueObj ELSE FalseObj)
              /\ e.Operator = "!=" => result' = (IF a # b THEN TrueObj ELSE FalseObj)
       ]_vars

\* C4: in an infix expression an Error of the left operand is returned and the
\* right operand is not evaluated; an Error of the right operand is returned;
\* operands of different types yield Error("type mismatch: L OP R") whatever
\* the operator, == and != included.
C4_TypeMismatchFirst ==
    [][(Running /\ Cur.kind = "ExpressionStatement"
          /\ Cur.Expression.kind = "InfixExpression") =>
         LET e == Cur.Expression
             L == Eval(e.Left, Heap)
             R == Eval(e.Right, L)
         IN IF IsPanic(L.val) THEN TRUE
            ELSE IF isError(L.val)
            THEN /\ pc' = "done" /\ result' = L.val
                 /\ env' = L.env /\ nxt' = L.nxt
            ELSE IF IsPanic(R.val) THEN TRUE
            ELSE IF isError(R.val)
            THEN /\ pc' = "done" /\ result' = R.val
                 /\ env' = R.env /\ nxt' = R.nxt
            ELSE (~IsNil(L.val) /\ ~IsNil(R.val) /\ L.val.type # R.val.type) =>
                   /\ pc' = "done"
                   /\ result'.type = ERROR_OBJ
                   /\ result'.Message =
                        "type mismatch: " \o L.val.type \o " " \o e.Operator
                            \o " " \o R.val.type
                   /\ (e.Left.kind = "IntegerLiteral"
                         /\ e.Right.kind = "BooleanLiteral"
                         /\ e.Operator = "==") =>
                        result'.Message = "type mismatch: INTEGER == BOOLEAN"
                   /\ env' = R.env
       ]_vars

\* 1 == true has been evaluated
C4_Witness ==
    /\ pc = "done"
    /\ idx <= Len(program)
    /\ program[idx] =
         ExpressionStatement(
           InfixExpression(IntegerLiteral(1), "==", BooleanLiteral(TRUE)))
    /\ result.type = ERROR_OBJ
    /\ result.Message = "type mismatch: INTEGER == BOOLEAN"

\* C5: after a program has been evaluated no binding of the Environment holds
\* a Return or an Error object.
C5_NoSignalStored ==
    pc = "done" =>
      \A n \in DOMAIN env : env[n].type \notin {RETURN_OBJ, ERROR_OBJ}

\* C6: the result of a Program is never a Return object.
C6_NoReturnAtTopLevel ==
    pc = "done" => result.type # RETURN_OBJ

\* one evaluation of a top-level VarStatement; untouched says whether an
\* Error of the value expression leaves the whole Environment as it was
VarStatementStep(untouched) ==
    (Running /\ Cur.kind = "VarStatement") =>
      LET v == Eval(Cur.Value, Heap)
      IN IF IsPanic(v.val) THEN TRUE
         ELSE IF isError(v.val)
         THEN /\ pc' = "done"
              /\ result' = v.val
              /\ IF untouched THEN env' = env
                 ELSE /\ env' = v.env
                      /\ (Cur.Name \in DOMAIN env') = (Cur.Name \in DOMAIN v.env)
         ELSE /\ Cur.Name \in DOMAIN env'
              /\ env'[Cur.Name] = v.val
              /\ \A n \in DOMAIN v.env \ {Cur.Name} :
                    n \in DOMAIN env' /\ env'[n] = v.env[n]
              /\ DOMAIN env' = DOMAIN v.env \cup {Cur.Name}
              /\ Eval(Cur, Heap).val = v.val

\* C7 (as stated): a VarStatement whose value is an Error returns the Error and
\* leaves the Environment unchanged; otherwise the name is bound to the value
\* and the value is the statement's result.
C7_ErrorLeavesEnvUnchanged == [][VarStatementStep(TRUE)]_vars

\* C7 (amended): a VarStatement whose value is an Error returns the Error and
\* binds nothing itself: the Environment is as the evaluation of the value
\* expression left it; otherwise the name is bound to the value and the value
\* is the statement's result.
C7_ErrorBindsNothing == [][VarStatementStep(FALSE)]_vars

\* var x = if (true) { var y = 1; z };  y is bound by the block, x is not
C7_Witness ==
    /\ pc = "done"
    /\ idx <= Len(program)
    /\ program[idx].kind = "VarStatement"
    /\ program[idx].Value.kind = "IfExpression"
    /\ result.type = ERROR_OBJ
    /\ "y" \in DOMAIN env
    /\ "x" \notin DOMAIN env

\* C8: !TRUE is FALSE, !FALSE is TRUE, !NULL is TRUE, ! of any other object is
\* FALSE and never an Error; an Error of the operand is returned as it is.
C8_Bang ==
    [][(Running /\ Cur.kind = "ExpressionStatement"
          /\ Cur.Expression.kind = "PrefixExpression"
          /\ Cur.Expression.Operator = "!") =>
         LET v == Eval(Cur.Expression.Right, Heap)
         IN IF IsPanic(v.val) THEN TRUE
            ELSE IF isError(v.val) THEN pc' = "done" /\ result' = v.val
            ELSE /\ pc' = "evalProgram"
                 /\ result' = IF IsTrue(v.val) THEN FalseObj
                              ELSE IF IsFalse(v.val) THEN TrueObj
                              ELSE IF IsNull(v.val) THEN TrueObj
                              ELSE FalseObj
                 /\ env' = v.env
       ]_vars

\* !NULL has been evaluated to TRUE
C8_Witness ==
    /\ idx > 1
    /\ program[idx - 1] = ExpressionStatement(PrefixExpression("!", NullExpr))
    /\ result = TrueObj

\* C9: an Error of the condition of an if expression is returned and no block
\* is evaluated; the condition is falsy only when it is FALSE or NULL; exactly
\* one block is evaluated, the consequence when truthy, the alternative when
\* falsy and present; falsy without alternative the result is NULL and no
\* block is evaluated.
C9_If ==
    [][(Running /\ Cur.kind = "ExpressionStatement"
          /\ Cur.Expression.kind = "IfExpression") =>
         LET ie == Cur.Expression
             c == Eval(ie.Condition, Heap)
         IN IF IsPanic(c.val) THEN TRUE
            ELSE IF isError(c.val)
            THEN /\ pc' = "done" /\ result' = c.val
                 /\ env' = c.env /\ nxt' = c.nxt
            ELSE IF ~(IsFalse(c.val) \/ IsNull(c.val))
            THEN Delivered(Eval(ie.Consequence, c))
            ELSE IF ie.Alternative # NilNode
            THEN Delivered(Eval(ie.Alternative, c))
            ELSE /\ result' = NULL /\ pc' = "evalProgram"
                 /\ env' = c.env /\ nxt' = c.nxt
       ]_vars

\* if (0) { var y = 1; } else { var x = 0; }  took the consequence only
C9_Witness ==
    /\ idx > 1
    /\ program[idx - 1] =
         ExpressionStatement(
           IfExpression(IntegerLiteral(0),
                        BlockStatement(<<VarStatement("y", IntegerLiteral(MaxInt))>>),
                        BlockStatement(<<VarStatement("x", IntegerLiteral(0))>>)))
    /\ DOMAIN env = {"y"}
    /\ result.type = INTEGER_OBJ

----------------------------------------------------------------------------
(* Properties of the lexer *)

\* the lexer at the character NextToken dispatches on
AtToken == skipWhitespace(TheLexer)

\* the indices (in the input sequence) of the '*' of every closing sequence
\* that lies after the opening sequence the lexer l stands on
Closings(l) ==
    {j \in (l.position + 3)..(Len(l.input) - 1) :
        l.input[j] = "*" /\ l.input[j + 1] = "/"}

FirstClosing(l) ==
    CHOOSE j \in Closings(l) : \A k \in Closings(l) : j <= k

\* the lexer l moved behind the closing sequence whose '*' has index j
BehindClosing(l, j) ==
    Lexer(l.input, j + 1, j + 2,
          IF j + 1 >= Len(l.input) THEN NUL ELSE l.input[j + 2],
          l.RowNum + Cardinality({k \in (l.position + 3)..(j - 1) :
                                     l.input[k] \in {"\n", "\r"}}))

\* C10: a block comment ends at the first closing sequence after its opening
\* sequence, whatever opening sequences it contains; it yields no token, and
\* the token returned is the first token behind that closing sequence.
C10_FirstClosingEndsComment ==
    [][(pc = "lexer" /\ AtToken.ch = "/" /\ peekChar(AtToken) = "*"
          /\ Closings(AtToken) # {}) =>
         LET r == NextToken(BehindClosing(AtToken, FirstClosing(AtToken)))
         IN /\ tok' = r.tok
            /\ position' = r.lex.position
            /\ nextPosition' = r.lex.nextPosition
            /\ ch' = r.lex.ch
            /\ RowNum' = r.lex.RowNum
       ]_vars

\* the comment of  /*/**/a  ended at its first closing sequence: a is a token
C10_Witness ==
    /\ input = <<"/", "*", "/", "*", "*", "/", "a">>
    /\ tok = Token("IDENT", <<"a">>, 1)
    /\ position = 7

\* the lexer stands on the opening quote of a string that is never closed
UnclosedString(l) ==
    /\ l.ch = "\""
    /\ \A j \in (l.position + 2)..Len(l.input) : l.input[j] # "\""

\* the lexer stands on the opening of a block comment that is never closed
UnclosedComment(l) ==
    l.ch = "/" /\ peekChar(l) = "*" /\ Closings(l) = {}

\* C11: when the input ends inside a block comment or a string literal that
\* was never closed, NextToken returns an ILLEGAL token whose LineNumber is
\* the line on which the comment or string began, however many lines it spans.
C11_IllegalAtFirstLine ==
    [][(pc = "lexer" /\ (UnclosedString(AtToken) \/ UnclosedComment(AtToken))) =>
         /\ tok'.Type = "ILLEGAL"
         /\ tok'.LineNumber = AtToken.RowNum
       ]_vars

----------------------------------------------------------------------------
(* Canonical instances *)

\* obj, or the object it wraps, is no Boolean other than TRUE and FALSE and
\* no Null other than NULL
RECURSIVE Canonical(_)
Canonical(obj) ==
    CASE obj.type = BOOLEAN_OBJ -> obj = TrueObj \/ obj = FalseObj
      [] obj.type = NULL_OBJ -> obj = NULL
      [] obj.type = RETURN_OBJ -> Canonical(obj.RValue)
      [] OTHER -> TRUE

\* C12: every Boolean that evaluation produces is one of the two instances
\* TRUE and FALSE and every Null is the instance NULL, in the result and in
\* the Environment; so for two Boolean operands == yields TRUE exactly when
\* their values are equal, and != yields TRUE exactly when they differ.
C12_CanonicalInstances ==
    /\ [](Canonical(result) /\ \A n \in DOMAIN env : Canonical(env[n]))
    /\ [][(Running /\ Cur.kind = "ExpressionStatement"
             /\ Cur.Expression.kind = "InfixExpression"
             /\ Cur.Expression.Operator \in {"==", "!="}) =>
            LET l == Eval(Cur.Expression.Left, Heap)
                r == Eval(Cur.Expression.Right, [env |-> l.env, nxt |-> l.nxt])
            IN (l.val.type = BOOLEAN_OBJ /\ r.val.type = BOOLEAN_OBJ) =>
                 /\ Canonical(l.val) /\ Canonical(r.val)
                 /\ pc' = "evalProgram"
                 /\ result' = IF Cur.Expression.Operator = "=="
                              THEN (IF l.val.BValue = r.val.BValue
                                    THEN TrueObj ELSE FalseObj)
                              ELSE (IF l.val.BValue # r.val.BValue
                                    THEN TrueObj ELSE FalseObj)
          ]_vars

\* (0 < 1) != !true has been evaluated to TRUE: the operands are the Booleans
\* of a comparison and of a prefix !
C12_Witness ==
    /\ idx > 1
    /\ program[idx - 1] =
         ExpressionStatement(
             InfixExpression(
                 InfixExpression(IntegerLiteral(0), "<", IntegerLiteral(1)),
                 "!=",
                 PrefixExpression("!", BooleanLiteral(TRUE))))
    /\ result = TrueObj

----------------------------------------------------------------------------
(* End of input *)

\* a call that does not return EOF starts inside the input and moves on
Consumes == tok'.Type # "EOF" => (position < Len(input) /\ position' > position)

\* after an EOF token the next call returns EOF, with an empty literal
StaysEOF == tok.Type = "EOF" => (tok'.Type = "EOF" /\ tok'.Literal = <<>>)

\* the lexer has read past the last character only by returning EOF
EOFReached ==
    nextPosition > Len(input) + 1 => (tok.Type = "EOF" /\ tok.Literal = <<>>)

NulFree == \A i \in 1..Len(input) : input[i] # NUL

====
